---- MODULE Spec2Model ----
(***************************************************************************)
(* videoAuto: JSON-driven slideshow composer.                              *)
(*                                                                         *)
(* The module models render_job (src/app/renderer.py), the timing engine,  *)
(* as a state machine with one action per step of the function, and the    *)
(* front half of run (src/app/main.py): parse_job_file, build_sequence_    *)
(* nodes and the narration expansion. It also models the batch loop of     *)
(* main, AssetDownloader.fetch (src/app/downloader.py), the exceptions of  *)
(* render_job with its finally block, and _attach_cover_art. Five          *)
(* specifications share the variables: Spec and SpecRender (render_job),   *)
(* SpecRun (run), SpecMain (main) and SpecFetch (the downloader).          *)
(*                                                                         *)
(* Time is counted in centiseconds (1 = 0.01 s), so the code's literals    *)
(* read 0.05 -> 5, 0.1 -> 10, 0.8 -> 80, 0.04 -> 4. Arithmetic is exact:   *)
(* the floating-point rounding of the Python code is not modelled.         *)
(* Python lists are 0-based, the sequences here are 1-based: segment k of  *)
(* the model is segments[k-1] of the code.                                 *)
(***************************************************************************)
EXTENDS Integers, Sequences, FiniteSets, TLC

None == "None"

Max(a, b) == IF a >= b THEN a ELSE b
Min(a, b) == IF a <= b THEN a ELSE b

\* max(values, default=0.0) over a finite set of numbers
MaxOf(S) == IF S = {} THEN 0 ELSE CHOOSE x \in S : \A y \in S : y <= x

\* All sequences over S of length lo..hi
SeqsUpTo(S, lo, hi) == UNION {[1..n -> S] : n \in lo..hi}

(***************************************************************************)
(* Bounds of the model and the input sets                                  *)
(***************************************************************************)
MaxSegments == 3        \* segments handed to render_job
MaxNarratedNodes == 1   \* nodes of a job whose nodes carry narrations
MaxNarrations == 2      \* narrations of one such node
MaxPlainNodes == 4      \* nodes of a job whose nodes carry no narration
MaxEffects == 2         \* effect nodes of one group
MaxFaultyNodes == 2     \* nodes of a job that has invalid or unreachable nodes
MaxJobs == 2            \* job files of a batch
MaxFetches == 3         \* calls of fetch on one downloader
MaxRenderSegments == 2  \* segments of a render that may fail at any step

GroupIds == {"a", "b"}

\* Decoded length of each voice file, in centiseconds (AudioFileClip.duration)
VoiceFiles == {"cache/audio/long.mp3", "cache/audio/mid.mp3", "cache/audio/empty.mp3"}

AudioDuration(path) ==
    CASE path = "cache/audio/long.mp3"  -> 300
      [] path = "cache/audio/mid.mp3"   -> 150
      [] path = "cache/audio/empty.mp3" -> 0
      [] path = "cache/audio/bgm.mp3"   -> 60
      [] OTHER -> 0

TransitionSecs == {-20, 0, 50}
DefaultStillSecs == {0, 30, 200}
VoiceStartOffsetSecs == {-10, 0, 160}

Timelines ==
    [transition_sec : TransitionSecs,
     default_still_sec : DefaultStillSecs,
     voice_start_offset_sec : VoiceStartOffsetSecs]

FpsValues == {1, 30}
BgmPaths == {None, "cache/audio/bgm.mp3"}
CoverPaths == {None, "cache/images/cover.png"}

(***************************************************************************)
(* Job documents. A document is the list of its raw groups; the sections   *)
(* output, audio, subtitle and timeline are absent, so the parser uses its *)
(* defaults. Two families of documents are drawn: documents of few nodes   *)
(* with every mix of complete and incomplete narrations, and documents of  *)
(* more nodes, over two images, without narrations.                        *)
(***************************************************************************)
RawGroupIds == {None, "a"}

RawNarrations ==
    {[comment |-> "hi", voice_url |-> "long.mp3"],
     [comment |-> "yo", voice_url |-> "mid.mp3"],
     [comment |-> "hi", voice_url |-> None],
     [comment |-> "yo", voice_url |-> " "],
     [comment |-> " ",  voice_url |-> "mid.mp3"]}

NarratedNodes ==
    {[image_url |-> "p.png", narrations |-> n] :
        n \in SeqsUpTo(RawNarrations, 0, MaxNarrations)}

PlainNodes == {[image_url |-> i, narrations |-> <<>>] : i \in {"p.png", "q.png"}}

\* A JSON value that is neither a string nor null (a number, an object)
NotAString == "<number>"

\* Local references whose file does not exist
MissingSources == {"gone.png", "gone.mp3"}

\* Nodes of a third family of documents: the image reference is absent, blank,
\* of the wrong type or unreachable, a voice reference is of the wrong type or
\* unreachable
FaultyNodes ==
    {[image_url |-> i, narrations |-> n] :
        i \in {"p.png", "gone.png", None, " ", NotAString},
        n \in {<<>>,
               <<[comment |-> "hi", voice_url |-> NotAString]>>,
               <<[comment |-> "hi", voice_url |-> "gone.mp3"]>>}}

\* Raw groups over the node set Nodes with exactly e effects
RawGroupsWith(Nodes, e) ==
    [group_id : RawGroupIds, original : Nodes, effects : [1..e -> Nodes]]

\* A ResolvedSegment as run() builds it: a narrated segment carries a comment
\* and a voice, a silent one carries neither.
ResolvedSegment(g, v) ==
    [group_id |-> g, kind |-> "original", image_path |-> "cache/images/pic.png",
     comment |-> IF v = None THEN "" ELSE "hi", voice_path |-> v]

SegmentChoices == {ResolvedSegment(g, v) : g \in GroupIds, v \in VoiceFiles \cup {None}}

\* Segments as a caller of render_job may build them: comment and voice are
\* independent of each other
AnySegments ==
    [group_id : GroupIds, kind : {"original"}, image_path : {"cache/images/pic.png"},
     comment : {"", "hi"},
     voice_path : {"cache/audio/long.mp3", "cache/audio/empty.mp3", None}]

RenderTimelines ==
    [transition_sec : {0, 50}, default_still_sec : {30, 200},
     voice_start_offset_sec : {0, 160}]

(***************************************************************************)
(* Program constants                                                       *)
(***************************************************************************)
INTRA_GROUP_CUE_DELAY_SEC == 80
subtitle_gap == 5

VARIABLES
    pc,                       \* position in run / render_job
    raw_job,                  \* the job document read by parse_job_file
    job_groups,               \* job.groups after parsing
    sequence,                 \* result of build_sequence_nodes
    node_pos,                 \* nodes of the sequence expanded so far
    cache,                    \* paths present in the asset cache
    timeline,                 \* job.timeline as parsed (unclamped)
    segments,                 \* render_job's segments argument
    transition, default_still, voice_offset,
    idx,                      \* number of loop iterations completed
    cursor, durations, starts,
    video_layers, subtitle_layers, subtitle_segment_indices,
    subtitle_start_times, subtitle_end_times,
    audio_tracks, opened_audio_sources,
    max_visual_voice_end, total_duration, first_frame_cover_layers,
    open_handles,             \* audio handles opened and not yet closed
    output_file,              \* what the file at output_path holds
    tmp_file,                 \* whether the .with_cover temporary file exists
    fetch_log,                \* the calls of AssetDownloader.fetch, in order
    error,                    \* the exception run raised, None if none
    job_paths,                \* main: the job documents of the batch
    job_idx,                  \* main: jobs started so far
    succeeded, failed,        \* main: the two result lists
    exit_status               \* main: -1 while the process runs

vars == <<pc, raw_job, job_groups, sequence, node_pos, cache, timeline, segments,
          transition, default_still, voice_offset, idx, cursor, durations, starts,
          video_layers, subtitle_layers, subtitle_segment_indices,
          subtitle_start_times, subtitle_end_times, audio_tracks,
          opened_audio_sources, max_visual_voice_end, total_duration,
          first_frame_cover_layers, open_handles, output_file, tmp_file,
          fetch_log, error, job_paths, job_idx, succeeded, failed, exit_status>>

\* What the steps of run and render_job leave alone of main's state
BatchUnchanged == UNCHANGED <<job_paths, job_idx, succeeded, failed, exit_status>>

\* What the steps of render_job leave alone of run's state
RunUnchanged ==
    /\ UNCHANGED <<raw_job, job_groups, sequence, node_pos, cache, fetch_log, error>>
    /\ BatchUnchanged

EmptyDict == [k \in {} |-> 0]

\* The locals of render_job before the function body runs
LocalsUnset ==
    /\ transition = 0 /\ default_still = 0 /\ voice_offset = 0
    /\ idx = 0 /\ cursor = 0 /\ durations = <<>> /\ starts = <<>>
    /\ video_layers = <<>> /\ subtitle_layers = <<>>
    /\ subtitle_segment_indices = <<>>
    /\ subtitle_start_times = EmptyDict /\ subtitle_end_times = EmptyDict
    /\ audio_tracks = <<>> /\ opened_audio_sources = <<>>
    /\ max_visual_voice_end = 0 /\ total_duration = 0
    /\ first_frame_cover_layers = <<>>
    /\ open_handles = {} /\ output_file = None /\ tmp_file = FALSE

\* The state of run before it starts
RunUnset ==
    /\ job_groups = <<>> /\ sequence = <<>> /\ node_pos = 0 /\ cache = {}
    /\ fetch_log = <<>> /\ error = None

\* The state of main outside a batch
BatchUnset ==
    /\ job_paths = <<>> /\ job_idx = 0 /\ succeeded = <<>> /\ failed = <<>>
    /\ exit_status = -1

\* render_job is entered with a segment list and a parsed timeline
Init ==
    /\ pc = "render_job"
    /\ raw_job = None
    /\ RunUnset
    /\ timeline \in Timelines
    /\ segments \in SeqsUpTo(SegmentChoices, 0, MaxSegments)
    /\ LocalsUnset
    /\ BatchUnset

(***************************************************************************)
(* render_job, lines 36-51: the guard and the clamped timeline             *)
(***************************************************************************)
ClampTransition(t) == Max(0, t.transition_sec)
\* Variant: the still duration is floored at 0 like the other two
ClampDefaultStill_NoFloor(t) == Max(0, t.default_still_sec)

ClampDefaultStill(t) == Max(10, t.default_still_sec)
ClampVoiceOffset(t) == Max(0, t.voice_start_offset_sec)

RenderEmpty ==
    /\ pc = "render_job"
    /\ segments = <<>>
    /\ pc' = "raised"
    /\ RunUnchanged
    /\ UNCHANGED <<timeline, segments, transition, default_still, voice_offset,
                   idx, cursor, durations, starts, video_layers, subtitle_layers,
                   subtitle_segment_indices, subtitle_start_times,
                   subtitle_end_times, audio_tracks, opened_audio_sources,
                   max_visual_voice_end, total_duration, first_frame_cover_layers,
                   open_handles, output_file, tmp_file>>

RenderBegin ==
    /\ pc = "render_job"
    /\ segments # <<>>
    /\ transition' = ClampTransition(timeline)
    /\ default_still' = ClampDefaultStill(timeline)
    /\ voice_offset' = ClampVoiceOffset(timeline)
    /\ pc' = "loop"
    /\ RunUnchanged
    /\ UNCHANGED <<timeline, segments, idx, cursor, durations, starts,
                   video_layers, subtitle_layers, subtitle_segment_indices,
                   subtitle_start_times, subtitle_end_times, audio_tracks,
                   opened_audio_sources, max_visual_voice_end, total_duration,
                   first_frame_cover_layers, open_handles, output_file, tmp_file>>

(***************************************************************************)
(* The pieces of one loop iteration, lines 99-189                          *)
(***************************************************************************)
IsGroupFirst(k) == k = 1 \/ segments[k].group_id # segments[k - 1].group_id

SegmentVoiceOffset(k) ==
    IF IsGroupFirst(k) THEN voice_offset ELSE INTRA_GROUP_CUE_DELAY_SEC

HasVoice(seg) == seg.voice_path # None

\* The handle AudioFileClip(path) opens; handles are numbered in opening order
AudioFileClip(path, opened) == [id |-> Len(opened) + 1, path |-> path]

\* Variant: the opened source is not put on the list
RegisterSource_Forget(opened, src) == opened

\* opened_audio_sources.append(src)
RegisterSource(opened, src) == Append(opened, src)

\* The finally block: every source on the list is closed
finally_close(open, opened) == open \ {opened[i] : i \in 1..Len(opened)}

VoiceDuration(seg) == IF HasVoice(seg) THEN AudioDuration(seg.voice_path) ELSE 0

\* Variant: the voice is left out of the duration
SegmentDuration_StillOnly(still, voice_duration, off) == still

\* Variant: the offset is left out of the duration
SegmentDuration_NoOffset(still, voice_duration, off) == Max(still, voice_duration)

SegmentDuration(still, voice_duration, off) == Max(still, voice_duration + off)

SegmentStart(k, cur, T) == IF k = 1 THEN cur ELSE cur - T

\* Variant: every segment advances the cursor by its full duration
CursorAdvance_Full(k, duration, T) == duration

CursorAdvance(k, duration, T) == IF k = 1 THEN duration ELSE Max(0, duration - T)

\* voice_end: 0.0 without a voice, else min(voice_src.duration, available)
VoiceEnd(seg, duration, off) ==
    IF HasVoice(seg) THEN Min(AudioDuration(seg.voice_path), Max(0, duration - off))
    ELSE 0

\* Variant: the voice clip starts with the segment
VoiceClip_NoOffset(k, start, off, voice_end) ==
    [kind |-> "voice", seg |-> k, start |-> start, duration |-> voice_end]

\* voice_src.subclipped(0, voice_end).with_start(start + segment_voice_offset)
VoiceClip(k, start, off, voice_end) ==
    [kind |-> "voice", seg |-> k, start |-> start + off, duration |-> voice_end]

SubtitleStart(seg, start, off) == IF HasVoice(seg) THEN start + off ELSE start

\* The absolute interval in which a slide-out layer moves: _pos holds the clip
\* until hold_until and the clip is shown until its duration
SlideOutWindow(layer) ==
    [from |-> layer.start + layer.hold_until,
     to |-> layer.start + Min(layer.duration, layer.hold_until + layer.slide)]

\* The absolute interval in which a slide-in layer moves: from its start until
\* progress reaches 1 or the clip ends
SlideInWindow(layer) ==
    [from |-> layer.start, to |-> layer.start + Min(layer.duration, layer.slide)]

\* An ImageClip fitted to the canvas: centred, no effect
ImageLayer(k, start, duration) ==
    [seg |-> k, start |-> start, duration |-> duration,
     position |-> "center", hold_until |-> 0, slide |-> 0, cross_fade_in |-> 0]

\* Variant: the trailing trim of the subtitle is left out
SubtitleDuration_NoTrim(seg, duration, voice_end) ==
    LET raw_subtitle_duration == IF HasVoice(seg) THEN voice_end ELSE duration
    IN  Min(duration, Max(5, raw_subtitle_duration))

SubtitleDuration(seg, duration, voice_end) ==
    LET raw_subtitle_duration == IF HasVoice(seg) THEN voice_end ELSE duration
    IN  Min(duration, Max(5, raw_subtitle_duration - 5))

\* Variant: the slide-out starts with the clip instead of T before its end
slide_out_left_sync_NoHold(clip, T) ==
    IF T <= 0 THEN clip
    ELSE [clip EXCEPT !.position = "slide_out_left", !.hold_until = 0, !.slide = T]

\* clip.with_position(_pos) replaces the clip's position function
slide_out_left_sync(clip, T) ==
    IF T <= 0 THEN clip
    ELSE [clip EXCEPT !.position = "slide_out_left",
                      !.hold_until = Max(0, clip.duration - T),
                      !.slide = T]

slide_in_right_sync(clip, T) ==
    IF T <= 0 THEN clip
    ELSE [clip EXCEPT !.position = "slide_in_right", !.hold_until = 0, !.slide = T]

CrossFadeIn(clip, T) == [clip EXCEPT !.cross_fade_in = T]

\* Variant: the slide pair is used inside a group and the dissolve between groups
LayersAfter_Swapped(layers, k, clip, T) ==
    IF k > 1 /\ T > 0
    THEN IF segments[k - 1].group_id = segments[k].group_id
         THEN Append([layers EXCEPT ![Len(layers)] = slide_out_left_sync(@, T)],
                     slide_in_right_sync(clip, T))
         ELSE Append(layers, CrossFadeIn(clip, T))
    ELSE Append(layers, clip)

\* video_layers after the transition branch of iteration k, lines 122-134
LayersAfter(layers, k, clip, T) ==
    IF k > 1 /\ T > 0
    THEN IF segments[k - 1].group_id # segments[k].group_id
         THEN Append([layers EXCEPT ![Len(layers)] = slide_out_left_sync(@, T)],
                     slide_in_right_sync(clip, T))
         ELSE Append(layers, CrossFadeIn(clip, T))
    ELSE Append(layers, clip)

PlaceSegment ==
    /\ pc = "loop"
    /\ idx < Len(segments)
    /\ LET k == idx + 1
           seg == segments[k]
           off == SegmentVoiceOffset(k)
           voice_duration == VoiceDuration(seg)
           segment_duration == SegmentDuration(default_still, voice_duration, off)
           start == SegmentStart(k, cursor, transition)
           voice_end == VoiceEnd(seg, segment_duration, off)
           subtitle_start == SubtitleStart(seg, start, off)
           subtitle_duration == SubtitleDuration(seg, segment_duration, voice_end)
           visual_end == Max(max_visual_voice_end, start + segment_duration)
           voice_src == AudioFileClip(seg.voice_path, opened_audio_sources)
       IN  /\ opened_audio_sources' =
                IF HasVoice(seg) THEN RegisterSource(opened_audio_sources, voice_src)
                ELSE opened_audio_sources
           /\ open_handles' =
                IF HasVoice(seg) THEN open_handles \cup {voice_src} ELSE open_handles
           /\ starts' = Append(starts, start)
           /\ durations' = Append(durations, segment_duration)
           /\ video_layers' =
                LayersAfter(video_layers, k, ImageLayer(k, start, segment_duration),
                            transition)
           /\ IF seg.comment # ""
              THEN /\ subtitle_layers' =
                        Append(subtitle_layers,
                               [seg |-> k, start |-> subtitle_start,
                                duration |-> subtitle_duration])
                   /\ subtitle_segment_indices' = Append(subtitle_segment_indices, k)
                   /\ subtitle_start_times' = subtitle_start_times @@ (k :> subtitle_start)
                   /\ subtitle_end_times' =
                        subtitle_end_times @@ (k :> subtitle_start + subtitle_duration)
              ELSE UNCHANGED <<subtitle_layers, subtitle_segment_indices,
                               subtitle_start_times, subtitle_end_times>>
           /\ IF HasVoice(seg) /\ voice_end > 0
              THEN /\ audio_tracks' =
                        Append(audio_tracks, VoiceClip(k, start, off, voice_end))
                   /\ max_visual_voice_end' = Max(visual_end, start + off + voice_end)
              ELSE /\ audio_tracks' = audio_tracks
                   /\ max_visual_voice_end' = visual_end
           /\ cursor' = cursor + CursorAdvance(k, segment_duration, transition)
           /\ idx' = k
    /\ RunUnchanged
    /\ UNCHANGED <<pc, timeline, segments, transition, default_still, voice_offset,
                   total_duration, first_frame_cover_layers, output_file, tmp_file>>

(***************************************************************************)
(* The subtitle post-pass, lines 191-204                                   *)
(***************************************************************************)
\* New duration of the subtitle of segment k, which is not the last segment
CappedDuration(original_end, next_start, subtitle_start) ==
    Max(5, Min(original_end, next_start - subtitle_gap) - subtitle_start)

CapSubtitles ==
    /\ pc = "loop"
    /\ idx = Len(segments)
    /\ LET Capped(k) == k + 1 <= Len(starts) /\ k \in DOMAIN subtitle_end_times
           NewDuration(k) ==
               CappedDuration(subtitle_end_times[k], starts[k + 1],
                              IF k \in DOMAIN subtitle_start_times
                              THEN subtitle_start_times[k] ELSE starts[k])
           SubStart(k) == IF k \in DOMAIN subtitle_start_times
                          THEN subtitle_start_times[k] ELSE starts[k]
       IN  /\ subtitle_layers' =
                [i \in 1..Len(subtitle_layers) |->
                    LET k == subtitle_segment_indices[i]
                    IN  IF Capped(k)
                        THEN [subtitle_layers[i] EXCEPT !.duration = NewDuration(k)]
                        ELSE subtitle_layers[i]]
           /\ subtitle_end_times' =
                [k \in DOMAIN subtitle_end_times |->
                    IF Capped(k) THEN SubStart(k) + NewDuration(k)
                    ELSE subtitle_end_times[k]]
    /\ pc' = "compose"
    /\ RunUnchanged
    /\ UNCHANGED <<timeline, segments, transition, default_still, voice_offset,
                   idx, cursor, durations, starts, video_layers,
                   subtitle_segment_indices, subtitle_start_times, audio_tracks,
                   opened_audio_sources, max_visual_voice_end, total_duration,
                   first_frame_cover_layers, open_handles, output_file, tmp_file>>

(***************************************************************************)
(* Total duration, cover layer and background music, lines 206-238         *)
(***************************************************************************)
\* Variant: the subtitle ends are left out of the total
TotalDuration_NoSubtitles(visual_voice_end, subtitle_ends) ==
    Max(visual_voice_end, 10)

TotalDuration(visual_voice_end, subtitle_ends) ==
    Max(Max(visual_voice_end, MaxOf(subtitle_ends)), 10)

\* max(1.0 / max(1, fps), 0.04); 100 \div f is exact for the fps values used,
\* or below the 0.04 floor
CoverFrameDuration(f) == Max(100 \div Max(1, f), 4)

Compose ==
    /\ pc = "compose"
    /\ \E f \in FpsValues, bgm_path \in BgmPaths, cover_path \in CoverPaths :
        LET total == TotalDuration(max_visual_voice_end,
                                   {subtitle_end_times[k] : k \in DOMAIN subtitle_end_times})
            bgm_end == Min(total, AudioDuration(bgm_path))
            bgm_src == AudioFileClip(bgm_path, opened_audio_sources)
        IN  /\ total_duration' = total
            /\ first_frame_cover_layers' =
                 IF cover_path # None
                 THEN <<[start |-> 0, duration |-> CoverFrameDuration(f)]>>
                 ELSE <<>>
            /\ opened_audio_sources' =
                 IF bgm_path # None THEN RegisterSource(opened_audio_sources, bgm_src)
                 ELSE opened_audio_sources
            /\ open_handles' =
                 IF bgm_path # None THEN open_handles \cup {bgm_src} ELSE open_handles
            /\ audio_tracks' =
                 IF bgm_path # None /\ bgm_end > 0
                 THEN <<[kind |-> "bgm", seg |-> 0, start |-> 0, duration |-> bgm_end]>>
                      \o audio_tracks
                 ELSE audio_tracks
    /\ pc' = "write"
    /\ RunUnchanged
    /\ UNCHANGED <<timeline, segments, transition, default_still, voice_offset,
                   idx, cursor, durations, starts, video_layers, subtitle_layers,
                   subtitle_segment_indices, subtitle_start_times,
                   subtitle_end_times, max_visual_voice_end, output_file, tmp_file>>

(***************************************************************************)
(* write_videofile, close, and the finally block, lines 240-257            *)
(***************************************************************************)
WriteAndClose ==
    /\ pc = "write"
    /\ output_file' = "render"
    /\ open_handles' = finally_close(open_handles, opened_audio_sources)
    /\ pc' = "returned"
    /\ RunUnchanged
    /\ UNCHANGED <<timeline, segments, transition, default_still, voice_offset,
                   idx, cursor, durations, starts, video_layers, subtitle_layers,
                   subtitle_segment_indices, subtitle_start_times,
                   subtitle_end_times, audio_tracks, opened_audio_sources,
                   max_visual_voice_end, total_duration, first_frame_cover_layers,
                   tmp_file>>

Next ==
    \/ RenderEmpty
    \/ RenderBegin
    \/ PlaceSegment
    \/ CapSubtitles
    \/ Compose
    \/ WriteAndClose

Spec == Init /\ [][Next]_vars

(***************************************************************************)
(* render_job leaving by an exception: the finally block still runs        *)
(***************************************************************************)
\* Iteration idx+1 raises: AudioFileClip on the voice file (nothing opened),
\* or ImageClip / TextClip after the voice file was opened and listed
PlaceRaises ==
    /\ pc = "loop"
    /\ idx < Len(segments)
    /\ LET seg == segments[idx + 1]
           voice_src == AudioFileClip(seg.voice_path, opened_audio_sources)
       IN  \E at \in {"voice", "clip"} :
             /\ at = "voice" => HasVoice(seg)
             /\ LET listed == IF at = "clip" /\ HasVoice(seg)
                              THEN RegisterSource(opened_audio_sources, voice_src)
                              ELSE opened_audio_sources
                    open == IF at = "clip" /\ HasVoice(seg)
                            THEN open_handles \cup {voice_src} ELSE open_handles
                IN  /\ opened_audio_sources' = listed
                    /\ open_handles' = finally_close(open, listed)
    /\ pc' = "raised"
    /\ RunUnchanged
    /\ UNCHANGED <<timeline, segments, transition, default_still, voice_offset,
                   idx, cursor, durations, starts, video_layers, subtitle_layers,
                   subtitle_segment_indices, subtitle_start_times,
                   subtitle_end_times, audio_tracks, max_visual_voice_end,
                   total_duration, first_frame_cover_layers, output_file, tmp_file>>

\* Composing raises: AudioFileClip on the bgm file (nothing opened), or a
\* later step after the bgm file was opened and listed
ComposeRaises ==
    /\ pc = "compose"
    /\ \E bgm_path \in BgmPaths, at \in {"bgm", "composite"} :
         /\ at = "bgm" => bgm_path # None
         /\ LET bgm_src == AudioFileClip(bgm_path, opened_audio_sources)
                listed == IF at = "composite" /\ bgm_path # None
                          THEN RegisterSource(opened_audio_sources, bgm_src)
                          ELSE opened_audio_sources
                open == IF at = "composite" /\ bgm_path # None
                        THEN open_handles \cup {bgm_src} ELSE open_handles
            IN  /\ opened_audio_sources' = listed
                /\ open_handles' = finally_close(open, listed)
    /\ pc' = "raised"
    /\ RunUnchanged
    /\ UNCHANGED <<timeline, segments, transition, default_still, voice_offset,
                   idx, cursor, durations, starts, video_layers, subtitle_layers,
                   subtitle_segment_indices, subtitle_start_times,
                   subtitle_end_times, audio_tracks, max_visual_voice_end,
                   total_duration, first_frame_cover_layers, output_file, tmp_file>>

\* write_videofile raises (the encoder fails)
WriteRaises ==
    /\ pc = "write"
    /\ open_handles' = finally_close(open_handles, opened_audio_sources)
    /\ pc' = "raised"
    /\ RunUnchanged
    /\ UNCHANGED <<timeline, segments, transition, default_still, voice_offset,
                   idx, cursor, durations, starts, video_layers, subtitle_layers,
                   subtitle_segment_indices, subtitle_start_times,
                   subtitle_end_times, audio_tracks, opened_audio_sources,
                   max_visual_voice_end, total_duration, first_frame_cover_layers,
                   output_file, tmp_file>>

(***************************************************************************)
(* run, lines 80-82, and _attach_cover_art, lines 85-122                   *)
(***************************************************************************)
\* The locals and results of render_job, which the steps after it leave alone
PlanUnchanged ==
    UNCHANGED <<timeline, segments, transition, default_still, voice_offset,
                idx, cursor, durations, starts, video_layers, subtitle_layers,
                subtitle_segment_indices, subtitle_start_times,
                subtitle_end_times, audio_tracks, opened_audio_sources,
                max_visual_voice_end, total_duration, first_frame_cover_layers,
                open_handles>>

\* render_job was called with a cover: the plan has the cover layer
HasCover == first_frame_cover_layers # <<>>

\* No cover: run returns the rendered file
RunReturns ==
    /\ pc = "returned"
    /\ ~HasCover
    /\ pc' = "run_returned"
    /\ UNCHANGED <<output_file, tmp_file>>
    /\ RunUnchanged
    /\ PlanUnchanged

\* shutil.which finds no ffmpeg: a warning, nothing else
AttachSkipped ==
    /\ pc = "returned"
    /\ HasCover
    /\ pc' = "run_returned"
    /\ UNCHANGED <<output_file, tmp_file>>
    /\ RunUnchanged
    /\ PlanUnchanged

\* ffmpeg exits non-zero: CalledProcessError is caught and the temporary file
\* is unlinked, unless the unlink fails too
AttachEmbedFails ==
    /\ pc = "returned"
    /\ HasCover
    /\ tmp_file' \in BOOLEAN
    /\ pc' = "run_returned"
    /\ UNCHANGED output_file
    /\ RunUnchanged
    /\ PlanUnchanged

\* ffmpeg exits 0 and the temporary file replaces the render
AttachReplaces ==
    /\ pc = "returned"
    /\ HasCover
    /\ output_file' = "with_cover"
    /\ pc' = "run_returned"
    /\ UNCHANGED tmp_file
    /\ RunUnchanged
    /\ PlanUnchanged

\* ffmpeg exits 0 and tmp_path.replace raises OSError: the except clause
\* names CalledProcessError only, so the error leaves run
AttachReplaceRaises ==
    /\ pc = "returned"
    /\ HasCover
    /\ tmp_file' = TRUE
    /\ error' = "OSError: replace"
    /\ pc' = "failed"
    /\ UNCHANGED <<output_file, raw_job, job_groups, sequence, node_pos, cache,
                   fetch_log>>
    /\ BatchUnchanged
    /\ PlanUnchanged

\* render_job is entered with any segment list; every step may raise
InitRender ==
    /\ pc = "render_job"
    /\ raw_job = None
    /\ RunUnset
    /\ timeline \in RenderTimelines
    /\ segments \in SeqsUpTo(AnySegments, 0, MaxRenderSegments)
    /\ LocalsUnset
    /\ BatchUnset

NextRender ==
    \/ RenderEmpty
    \/ RenderBegin
    \/ PlaceSegment
    \/ PlaceRaises
    \/ CapSubtitles
    \/ Compose
    \/ ComposeRaises
    \/ WriteAndClose
    \/ WriteRaises
    \/ RunReturns
    \/ AttachSkipped
    \/ AttachEmbedFails
    \/ AttachReplaces
    \/ AttachReplaceRaises

SpecRender == InitRender /\ [][NextRender]_vars

(***************************************************************************)
(* run, src/app/main.py lines 28-70: parse, flatten, expand                *)
(***************************************************************************)
RenderUnchanged ==
    UNCHANGED <<transition, default_still, voice_offset, idx, cursor, durations,
                starts, video_layers, subtitle_layers, subtitle_segment_indices,
                subtitle_start_times, subtitle_end_times, audio_tracks,
                opened_audio_sources, max_visual_voice_end, total_duration,
                first_frame_cover_layers, open_handles, output_file, tmp_file>>

\* str.strip() on the strings the documents use: a blank string becomes empty
Strip(s) == IF s = " " THEN "" ELSE s

\* Variant: any value is taken as a reference
as_str_raises_Never(value) == FALSE

\* _as_str raises unless the value is a string that is not blank
as_str_raises(value) == value \in {None, NotAString} \/ Strip(value) = ""

\* comment and voice_url of one narration as _parse_node reads them
ParseNarration(item) ==
    [comment |-> Strip(item.comment),
     voice_url |-> IF item.voice_url = None THEN None
                   ELSE IF Strip(item.voice_url) = "" THEN None
                   ELSE Strip(item.voice_url)]

\* Variant: only the voice reference is required
KeepNarration_VoiceOnly(n) == n.voice_url # None

\* `if not comment or not voice_url: continue`
KeepNarration(n) == n.comment # "" /\ n.voice_url # None

\* _parse_node raises ValueError: no image reference, or a voice_url that is
\* neither a string nor null
parse_node_raises(raw) ==
    \/ as_str_raises(raw.image_url)
    \/ \E i \in 1..Len(raw.narrations) : raw.narrations[i].voice_url = NotAString

parse_node(raw) ==
    [image_url |-> Strip(raw.image_url),
     narrations |->
        SelectSeq([i \in 1..Len(raw.narrations) |-> ParseNarration(raw.narrations[i])],
                  KeepNarration)]

\* f"group-{index+1}"
DefaultGroupId(index) ==
    CASE index = 0 -> "group-1" [] index = 1 -> "group-2" [] index = 2 -> "group-3"
      [] index = 3 -> "group-4" [] index = 4 -> "group-5" [] OTHER -> "group-n"

parse_group_raises(raw) ==
    \/ parse_node_raises(raw.original)
    \/ \E i \in 1..Len(raw.effects) : parse_node_raises(raw.effects[i])

parse_group(raw, index) ==
    [group_id |-> IF raw.group_id = None THEN DefaultGroupId(index) ELSE raw.group_id,
     original |-> parse_node(raw.original),
     effects |-> [i \in 1..Len(raw.effects) |-> parse_node(raw.effects[i])]]

\* TimelineSpec built from an absent timeline section
DefaultTimeline ==
    [transition_sec |-> 50, default_still_sec |-> 200, voice_start_offset_sec |-> 0]

\* parse_job_file raises ValueError: groups is empty, or a group does not parse
parse_job_file_raises(raw) ==
    \/ raw.groups = <<>>
    \/ \E i \in 1..Len(raw.groups) : parse_group_raises(raw.groups[i])

\* parse_job_file on a document it accepts
ParseJob ==
    /\ pc = "parse_job_file"
    /\ ~parse_job_file_raises(raw_job)
    /\ job_groups' = [i \in 1..Len(raw_job.groups) |-> parse_group(raw_job.groups[i], i - 1)]
    /\ timeline' = DefaultTimeline
    /\ pc' = "build_sequence_nodes"
    /\ UNCHANGED <<raw_job, sequence, node_pos, cache, segments, fetch_log, error>>
    /\ RenderUnchanged
    /\ BatchUnchanged

\* parse_job_file raises ValueError
ParseRaises ==
    /\ pc = "parse_job_file"
    /\ parse_job_file_raises(raw_job)
    /\ pc' = "failed"
    /\ error' = "ValueError: invalid job json"
    /\ UNCHANGED <<raw_job, job_groups, sequence, node_pos, cache, timeline, segments,
                   fetch_log>>
    /\ RenderUnchanged
    /\ BatchUnchanged

\* Variant: the effect nodes are emitted before the original node
GroupEntries_EffectsFirst(group) ==
    [i \in 1..Len(group.effects) |->
        [group_id |-> group.group_id, kind |-> "effect", node |-> group.effects[i]]]
    \o <<[group_id |-> group.group_id, kind |-> "original", node |-> group.original]>>

\* The entries one group appends to the sequence
GroupEntries(group) ==
    <<[group_id |-> group.group_id, kind |-> "original", node |-> group.original]>>
    \o [i \in 1..Len(group.effects) |->
          [group_id |-> group.group_id, kind |-> "effect", node |-> group.effects[i]]]

RECURSIVE build_sequence_nodes(_)
build_sequence_nodes(groups) ==
    IF groups = <<>> THEN <<>>
    ELSE GroupEntries(Head(groups)) \o build_sequence_nodes(Tail(groups))

\* The sequence of a parsed job is never empty, so line 32 never raises
BuildSequence ==
    /\ pc = "build_sequence_nodes"
    /\ sequence' = build_sequence_nodes(job_groups)
    /\ pc' = IF sequence' = <<>> THEN "failed" ELSE "expand"
    /\ error' = IF sequence' = <<>> THEN "ValueError: no nodes" ELSE error
    /\ UNCHANGED <<raw_job, job_groups, node_pos, cache, timeline, segments, fetch_log>>
    /\ RenderUnchanged
    /\ BatchUnchanged

(***************************************************************************)
(* AssetDownloader.fetch, src/app/downloader.py                            *)
(***************************************************************************)
\* urlparse(source).scheme in {"http", "https"}
IsHttp(source) == source \in {"http://h/v.mp3"}

\* The cache path of a reference: target_dir / f"{digest}{ext}", one file per
\* reference in the directory of its category; the reference's name stands
\* for the digest of the reference
CachePath(source, subdir) ==
    CASE source = "p.png" /\ subdir = "images" -> "cache/images/p.png"
      [] source = "q.png" /\ subdir = "images" -> "cache/images/q.png"
      [] source = "long.mp3" /\ subdir = "audio" -> "cache/audio/long.mp3"
      [] source = "mid.mp3" /\ subdir = "audio" -> "cache/audio/mid.mp3"
      [] source = "p.png" /\ subdir = "audio" -> "cache/audio/p.png"
      [] source = "http://h/v.mp3" /\ subdir = "audio" -> "cache/audio/v.mp3"
      [] source = "http://h/v.mp3" /\ subdir = "images" -> "cache/images/v.mp3"
      [] source = "gone.png" /\ subdir = "images" -> "cache/images/gone.png"
      [] source = "gone.png" /\ subdir = "audio" -> "cache/audio/gone.png"
      [] source = "gone.mp3" /\ subdir = "audio" -> "cache/audio/gone.mp3"
      [] OTHER -> "cache/other"

\* fetch raises whatever the cache holds: an empty reference (line 17), a
\* local file that does not exist (line 46, checked before the cache)
fetch_raises(source) == source = "" \/ source \in MissingSources

\* Variant: the target is downloaded again although it is cached
fetch_Redownload(c, source, subdir) ==
    [source |-> source, subdir |-> subdir, ok |-> TRUE,
     path |-> CachePath(source, subdir), downloaded |-> TRUE]

\* A fetch that returns: the target is downloaded or copied unless it exists
fetch(c, source, subdir) ==
    [source |-> source, subdir |-> subdir, ok |-> TRUE,
     path |-> CachePath(source, subdir),
     downloaded |-> CachePath(source, subdir) \notin c]

\* The record of a fetch that raised
fetch_failed(source, subdir) ==
    [source |-> source, subdir |-> subdir, ok |-> FALSE, path |-> None,
     downloaded |-> FALSE]

\* The records of a run of fetches that all return, starting from cache c
RECURSIVE FetchAll(_, _)
FetchAll(c, calls) ==
    IF calls = <<>> THEN <<>>
    ELSE LET r == fetch(c, Head(calls).source, Head(calls).subdir)
         IN  <<r>> \o FetchAll(c \cup {r.path}, Tail(calls))

\* The references and categories fetch is called with
FetchSources == {"p.png", "http://h/v.mp3", "gone.png", ""}
Subdirs == {"images", "audio"}

\* fetch returns the target: downloaded or copied if it is not in the cache
DownloaderReturns ==
    /\ pc = "fetch"
    /\ Len(fetch_log) < MaxFetches
    /\ \E source \in FetchSources, subdir \in Subdirs :
         /\ ~fetch_raises(source)
         /\ LET r == fetch(cache, source, subdir)
            IN  /\ fetch_log' = Append(fetch_log, r)
                /\ cache' = cache \cup {r.path}
    /\ UNCHANGED <<pc, raw_job, job_groups, sequence, node_pos, timeline, segments, error>>
    /\ RenderUnchanged
    /\ BatchUnchanged

\* fetch raises ValueError or FileNotFoundError before it looks at the cache
DownloaderRaises ==
    /\ pc = "fetch"
    /\ Len(fetch_log) < MaxFetches
    /\ \E source \in FetchSources, subdir \in Subdirs :
         /\ fetch_raises(source)
         /\ fetch_log' = Append(fetch_log, fetch_failed(source, subdir))
    /\ UNCHANGED <<pc, raw_job, job_groups, sequence, node_pos, cache, timeline,
                   segments, error>>
    /\ RenderUnchanged
    /\ BatchUnchanged

\* The request of an uncached url fails (requests.get, raise_for_status):
\* nothing is written
DownloadFails ==
    /\ pc = "fetch"
    /\ Len(fetch_log) < MaxFetches
    /\ \E source \in FetchSources, subdir \in Subdirs :
         /\ IsHttp(source)
         /\ CachePath(source, subdir) \notin cache
         /\ fetch_log' = Append(fetch_log, fetch_failed(source, subdir))
    /\ UNCHANGED <<pc, raw_job, job_groups, sequence, node_pos, cache, timeline,
                   segments, error>>
    /\ RenderUnchanged
    /\ BatchUnchanged

\* Writing the target breaks off (the stream, the copy): fetch raises and the
\* target file stays behind
DownloadInterrupted ==
    /\ pc = "fetch"
    /\ Len(fetch_log) < MaxFetches
    /\ \E source \in FetchSources, subdir \in Subdirs :
         /\ ~fetch_raises(source)
         /\ CachePath(source, subdir) \notin cache
         /\ fetch_log' = Append(fetch_log, fetch_failed(source, subdir))
         /\ cache' = cache \cup {CachePath(source, subdir)}
    /\ UNCHANGED <<pc, raw_job, job_groups, sequence, node_pos, timeline, segments, error>>
    /\ RenderUnchanged
    /\ BatchUnchanged

\* A downloader on an empty cache directory
InitFetch ==
    /\ pc = "fetch"
    /\ raw_job = None
    /\ timeline = None
    /\ segments = <<>>
    /\ RunUnset
    /\ LocalsUnset
    /\ BatchUnset

NextFetch ==
    \/ DownloaderReturns
    \/ DownloaderRaises
    \/ DownloadFails
    \/ DownloadInterrupted

SpecFetch == InitFetch /\ [][NextFetch]_vars

(***************************************************************************)
(* run, lines 37-70: the expansion loop                                    *)
(***************************************************************************)
\* The fetches of one iteration: the image, then the voice of each narration
NodeFetches(entry) ==
    <<[source |-> entry.node.image_url, subdir |-> "images"]>>
    \o [i \in 1..Len(entry.node.narrations) |->
          [source |-> entry.node.narrations[i].voice_url, subdir |-> "audio"]]

\* The segments one node expands to, lines 41-67
NodeSegments(entry) ==
    LET image_path == CachePath(entry.node.image_url, "images")
        narrations == entry.node.narrations
    IN  IF narrations # <<>>
        THEN [i \in 1..Len(narrations) |->
                [group_id |-> entry.group_id, kind |-> entry.kind,
                 image_path |-> image_path, comment |-> narrations[i].comment,
                 voice_path |-> IF narrations[i].voice_url # None
                                THEN CachePath(narrations[i].voice_url, "audio")
                                ELSE None]]
        ELSE <<[group_id |-> entry.group_id, kind |-> entry.kind,
                image_path |-> image_path, comment |-> "", voice_path |-> None]>>

\* One iteration of the loop over the sequence with every fetch returning
ExpandNode ==
    /\ pc = "expand"
    /\ node_pos < Len(sequence)
    /\ LET entry == sequence[node_pos + 1]
           calls == NodeFetches(entry)
           new == NodeSegments(entry)
       IN  /\ \A i \in 1..Len(calls) : ~fetch_raises(calls[i].source)
           /\ segments' = segments \o new
           /\ fetch_log' = fetch_log \o FetchAll(cache, calls)
           /\ cache' = cache \cup {new[i].image_path : i \in 1..Len(new)}
                             \cup ({new[i].voice_path : i \in 1..Len(new)} \ {None})
    /\ node_pos' = node_pos + 1
    /\ UNCHANGED <<pc, raw_job, job_groups, sequence, timeline, error>>
    /\ RenderUnchanged
    /\ BatchUnchanged

\* A fetch of the iteration raises: the fetches before it have returned
FetchRaises ==
    /\ pc = "expand"
    /\ node_pos < Len(sequence)
    /\ LET calls == NodeFetches(sequence[node_pos + 1])
           Bad == {i \in 1..Len(calls) : fetch_raises(calls[i].source)}
       IN  /\ Bad # {}
           /\ LET n == CHOOSE i \in Bad : \A j \in Bad : i <= j
                  done == FetchAll(cache, SubSeq(calls, 1, n - 1))
              IN  /\ fetch_log' = fetch_log \o done
                                  \o <<fetch_failed(calls[n].source, calls[n].subdir)>>
                  /\ cache' = cache \cup {done[i].path : i \in 1..Len(done)}
    /\ pc' = "failed"
    /\ error' = "FileNotFoundError: local source not found"
    /\ UNCHANGED <<raw_job, job_groups, sequence, node_pos, timeline, segments>>
    /\ RenderUnchanged
    /\ BatchUnchanged

\* Lines 69-70 after the loop: the document names no bgm, so nothing is
\* fetched; reading job.output.cover raises AttributeError, OutputSpec
\* (src/app/models.py lines 33-37) having no such field
ResolveExtras ==
    /\ pc = "expand"
    /\ node_pos = Len(sequence)
    /\ pc' = "failed"
    /\ error' = "AttributeError: 'OutputSpec' object has no attribute 'cover'"
    /\ UNCHANGED <<raw_job, job_groups, sequence, node_pos, cache, timeline, segments,
                   fetch_log>>
    /\ RenderUnchanged
    /\ BatchUnchanged

\* The job file holds a list of groups over the node set Nodes with at most n
\* nodes in all: the groups read so far followed by any further ones
RECURSIVE RawJobOver(_, _, _)
RawJobOver(groups, Nodes, n) ==
    \/ raw_job = [groups |-> groups]
    \/ /\ n > 0
       /\ \E e \in 0..Min(MaxEffects, n - 1) :
            \E g \in RawGroupsWith(Nodes, e) :
                RawJobOver(Append(groups, g), Nodes, n - 1 - e)

InitRun ==
    /\ pc = "parse_job_file"
    /\ \/ RawJobOver(<<>>, NarratedNodes, MaxNarratedNodes)
       \/ RawJobOver(<<>>, PlainNodes, MaxPlainNodes)
       \/ RawJobOver(<<>>, FaultyNodes, MaxFaultyNodes)
    /\ timeline = None
    /\ segments = <<>>
    /\ RunUnset
    /\ LocalsUnset
    /\ BatchUnset

NextRun ==
    \/ ParseJob
    \/ ParseRaises
    \/ BuildSequence
    \/ ExpandNode
    \/ FetchRaises
    \/ ResolveExtras

SpecRun == InitRun /\ [][NextRun]_vars

(***************************************************************************)
(* main, src/app/main.py lines 153-185: the batch                          *)
(***************************************************************************)
\* A group of one node without effects
OneNodeGroup(image_url, narrations) ==
    [group_id |-> None,
     original |-> [image_url |-> image_url, narrations |-> narrations],
     effects |-> <<>>]

\* The job files a batch is drawn from: an empty groups array, a still, a
\* narrated node, a node whose image is unreachable
BatchDocs ==
    {[groups |-> <<>>],
     [groups |-> <<OneNodeGroup("p.png", <<>>)>>],
     [groups |-> <<OneNodeGroup("p.png", <<[comment |-> "hi", voice_url |-> "long.mp3"]>>)>>],
     [groups |-> <<OneNodeGroup("gone.png", <<>>)>>]}

\* jobs_dir holds no json file: FileNotFoundError leaves main uncaught and
\* the interpreter exits with status 1
NoJobsFound ==
    /\ pc = "main"
    /\ job_paths = <<>>
    /\ exit_status' = 1
    /\ pc' = "exited"
    /\ UNCHANGED <<raw_job, job_groups, sequence, node_pos, cache, timeline, segments,
                   fetch_log, error, job_paths, job_idx, succeeded, failed>>
    /\ RenderUnchanged

\* The loop takes the next job file and calls run on it; the cache directory
\* is shared by the jobs
StartJob ==
    /\ pc \in {"main", "next_job"}
    /\ job_idx < Len(job_paths)
    /\ job_idx' = job_idx + 1
    /\ raw_job' = job_paths[job_idx + 1]
    /\ job_groups' = <<>> /\ sequence' = <<>> /\ node_pos' = 0
    /\ segments' = <<>> /\ timeline' = None /\ error' = None
    /\ pc' = "parse_job_file"
    /\ UNCHANGED <<cache, fetch_log, job_paths, succeeded, failed, exit_status>>
    /\ RenderUnchanged

\* run has returned or raised: the job goes on one of the two lists
JobEnds ==
    /\ pc \in {"failed", "run_returned"}
    /\ IF pc = "run_returned"
       THEN /\ succeeded' = Append(succeeded, job_idx)
            /\ failed' = failed
       ELSE /\ failed' = Append(failed, [job_path |-> job_idx, reason |-> error])
            /\ succeeded' = succeeded
    /\ pc' = "next_job"
    /\ UNCHANGED <<raw_job, job_groups, sequence, node_pos, cache, timeline, segments,
                   fetch_log, error, job_paths, job_idx, exit_status>>
    /\ RenderUnchanged

\* Variant: the summary always ends the process with status 0
ExitStatus_Zero(failures) == 0

\* `if failed: raise SystemExit(1)`, else main returns
ExitStatus(failures) == IF failures # <<>> THEN 1 ELSE 0

\* The summary after the last job
Summary ==
    /\ pc = "next_job"
    /\ job_idx = Len(job_paths)
    /\ exit_status' = ExitStatus(failed)
    /\ pc' = "exited"
    /\ UNCHANGED <<raw_job, job_groups, sequence, node_pos, cache, timeline, segments,
                   fetch_log, error, job_paths, job_idx, succeeded, failed>>
    /\ RenderUnchanged

InitMain ==
    /\ pc = "main"
    /\ job_paths \in SeqsUpTo(BatchDocs, 0, MaxJobs)
    /\ job_idx = 0 /\ succeeded = <<>> /\ failed = <<>> /\ exit_status = -1
    /\ raw_job = None
    /\ timeline = None
    /\ segments = <<>>
    /\ RunUnset
    /\ LocalsUnset

NextMain ==
    \/ NoJobsFound
    \/ StartJob
    \/ ParseJob
    \/ ParseRaises
    \/ BuildSequence
    \/ ExpandNode
    \/ FetchRaises
    \/ ResolveExtras
    \/ JobEnds
    \/ Summary

SpecMain == InitMain /\ [][NextMain]_vars

(***************************************************************************)
(* Properties of the timing engine                                         *)
(***************************************************************************)
Planned == pc \in {"write", "returned"}

\* The voice offset of segment k, read off the inputs
OffsetOf(k) ==
    IF k = 1 \/ segments[k].group_id # segments[k - 1].group_id
    THEN (IF timeline.voice_start_offset_sec > 0
          THEN timeline.voice_start_offset_sec ELSE 0)
    ELSE 80

\* The decoded voice length of segment k, 0 without a voice
VoiceLenOf(k) ==
    IF segments[k].voice_path = None THEN 0 ELSE AudioDuration(segments[k].voice_path)

\* Segment k starts a new group and the transition is not switched off
Boundary(k) ==
    /\ k \in 2..Len(video_layers)
    /\ transition > 0
    /\ segments[k - 1].group_id # segments[k].group_id

C3_SubtitleCap ==
    pc \in {"compose", "write", "returned"} =>
        \A k \in DOMAIN subtitle_end_times :
            k < Len(segments) => subtitle_end_times[k] <= starts[k + 1] - 5

\* C4: total_duration is max(0.1, every visual end, every final subtitle end,
\* every voice end), hence at least each of them and at least 0.1.
C4_TotalDuration ==
    Planned =>
        LET VisualEnds == {starts[k] + durations[k] : k \in 1..Len(segments)}
            SubtitleEnds == {subtitle_end_times[k] : k \in DOMAIN subtitle_end_times}
            Voiced == {k \in 1..Len(segments) : segments[k].voice_path # None}
            Trimmed(k) ==
                LET avail == IF durations[k] - OffsetOf(k) > 0
                             THEN durations[k] - OffsetOf(k) ELSE 0
                IN  IF VoiceLenOf(k) < avail THEN VoiceLenOf(k) ELSE avail
            VoiceEnds == {starts[k] + OffsetOf(k) + Trimmed(k) : k \in Voiced}
            Ends == VisualEnds \cup SubtitleEnds \cup VoiceEnds \cup {10}
        IN  /\ total_duration \in Ends
            /\ \A e \in Ends : total_duration >= e

\* C4 witness: a finished plan whose total is set by a subtitle that outlasts
\* every visual end
C4_Witness ==
    /\ Planned
    /\ \E k \in DOMAIN subtitle_end_times : subtitle_end_times[k] = total_duration
    /\ \A k \in 1..Len(segments) : starts[k] + durations[k] < total_duration

\* C5 (as claimed): in the finished plan total_duration covers start + duration
\* of every planned item: image layers, subtitles, voice and bgm clips, and the
\* cover layer.
C5_TotalCoversEveryItem ==
    Planned =>
        /\ \A i \in 1..Len(video_layers) :
             video_layers[i].start + video_layers[i].duration <= total_duration
        /\ \A i \in 1..Len(subtitle_layers) :
             subtitle_layers[i].start + subtitle_layers[i].duration <= total_duration
        /\ \A i \in 1..Len(audio_tracks) :
             audio_tracks[i].start + audio_tracks[i].duration <= total_duration
        /\ \A i \in 1..Len(first_frame_cover_layers) :
             first_frame_cover_layers[i].start + first_frame_cover_layers[i].duration
                <= total_duration

\* The clamped default still duration, read off the inputs
StillOf == IF timeline.default_still_sec > 10 THEN timeline.default_still_sec ELSE 10

\* C6: every segment lasts max(default_still_duration, voice_duration + offset),
\* with voice_duration 0 for a segment without voice; voices of 3 s and 1.5 s in
\* one group with voice_start_offset 0 and default_still 2 last 3 s and 2.3 s.
C6_Duration ==
    /\ \A k \in 1..Len(durations) :
         /\ durations[k] = (IF StillOf >= VoiceLenOf(k) + OffsetOf(k)
                            THEN StillOf ELSE VoiceLenOf(k) + OffsetOf(k))
         /\ durations[k] >= StillOf
         /\ durations[k] >= VoiceLenOf(k) + OffsetOf(k)
    /\ ( /\ Len(durations) >= 2
         /\ segments[1].group_id = segments[2].group_id
         /\ VoiceLenOf(1) = 300 /\ VoiceLenOf(2) = 150
         /\ segments[1].voice_path # None /\ segments[2].voice_path # None
         /\ timeline.voice_start_offset_sec = 0
         /\ timeline.default_still_sec = 200 )
       => (durations[1] = 300 /\ durations[2] = 230)

\* C6 witness: the two narrations of the example have been placed
C6_Witness ==
    /\ Len(durations) >= 2
    /\ segments[1].group_id = segments[2].group_id
    /\ VoiceLenOf(1) = 300 /\ VoiceLenOf(2) = 150
    /\ timeline.voice_start_offset_sec = 0
    /\ timeline.default_still_sec = 200

\* C7 (as claimed): a segment without voice lasts exactly
\* default_still_duration, first of its group or not.
C7_SilentIsDefaultStill ==
    \A k \in 1..Len(durations) :
        segments[k].voice_path = None => durations[k] = StillOf

\* C8: with a transition, placing segment i > 0 gives it cross_dissolve_in and
\* leaves every earlier layer alone when it continues its group, and gives
\* segment i-1 slide_out_left and segment i slide_in_right when it starts a new
\* group; the first segment gets no transition; without a transition no layer
\* gets any.
C8_TransitionKinds ==
    [][ (pc = "loop" /\ idx' = idx + 1) =>
          LET k == idx'
              new == video_layers'
              plain(l) == l.position = "center" /\ l.cross_fade_in = 0
          IN  /\ Len(new) = k
              /\ k = 1 => plain(new[1])
              /\ (k > 1 /\ transition > 0
                        /\ segments[k - 1].group_id = segments[k].group_id) =>
                   /\ new[k].cross_fade_in = transition
                   /\ new[k].position = "center"
                   /\ \A j \in 1..(k - 1) : new[j] = video_layers[j]
              /\ (k > 1 /\ transition > 0
                        /\ segments[k - 1].group_id # segments[k].group_id) =>
                   /\ new[k - 1].position = "slide_out_left"
                   /\ new[k].position = "slide_in_right"
                   /\ new[k].cross_fade_in = 0
                   /\ \A j \in 1..(k - 2) : new[j] = video_layers[j]
              /\ transition = 0 => \A j \in 1..k : plain(new[j])
      ]_vars

\* C8 witness: three segments placed with a transition, the second continuing
\* the first one's group and the third starting a new group
C8_Witness ==
    /\ Len(video_layers) = 3
    /\ transition > 0
    /\ segments[1].group_id = segments[2].group_id
    /\ segments[2].group_id # segments[3].group_id
    /\ video_layers[2].position = "slide_out_left"
    /\ video_layers[2].cross_fade_in = transition
    /\ video_layers[3].position = "slide_in_right"

(***************************************************************************)
(* Properties of flattening and narration expansion                        *)
(***************************************************************************)
\* The nodes of the document in playing order, each with the id of its group
RECURSIVE RawNodesFrom(_, _)
RawNodesFrom(groups, index) ==
    IF groups = <<>> THEN <<>>
    ELSE LET g == Head(groups)
             gid == IF g.group_id = None THEN DefaultGroupId(index) ELSE g.group_id
         IN  <<[group_id |-> gid, node |-> g.original]>>
             \o [i \in 1..Len(g.effects) |-> [group_id |-> gid, node |-> g.effects[i]]]
             \o RawNodesFrom(Tail(groups), index + 1)

\* A narration of the document with a comment and a voice reference
RawComplete(n) == n.comment \notin {"", " "} /\ n.voice_url \notin {None, "", " "}

\* What a node of the document must contribute to the segment list
ExpectedOfNode(e) ==
    LET complete == SelectSeq(e.node.narrations, RawComplete)
        image == CachePath(e.node.image_url, "images")
    IN  IF complete = <<>>
        THEN <<[group_id |-> e.group_id, image_path |-> image,
                comment |-> "", voice_path |-> None]>>
        ELSE [i \in 1..Len(complete) |->
                [group_id |-> e.group_id, image_path |-> image,
                 comment |-> complete[i].comment,
                 voice_path |-> CachePath(complete[i].voice_url, "audio")]]

RECURSIVE ExpectedOfNodes(_, _)
ExpectedOfNodes(nodes, n) ==
    IF n = 0 THEN <<>> ELSE ExpectedOfNodes(nodes, n - 1) \o ExpectedOfNode(nodes[n])

RECURSIVE EntriesBefore(_)
EntriesBefore(g) ==
    IF g <= 1 THEN 0 ELSE EntriesBefore(g - 1) + 1 + Len(job_groups[g - 1].effects)

\* C10: the sequence lists the groups in declaration order, each group as its
\* original node followed by its effect nodes in declaration order, every
\* entry with its group's group_id, a group's entries contiguous, and its
\* length is the sum over the groups of 1 + number of effects.
C10_Flattening ==
    (pc \notin {"parse_job_file", "build_sequence_nodes"} /\ job_groups # <<>>) =>
        /\ Len(sequence) = EntriesBefore(Len(job_groups) + 1)
        /\ \A g \in 1..Len(job_groups) :
             LET at == EntriesBefore(g)
                 group == job_groups[g]
             IN  /\ sequence[at + 1] =
                      [group_id |-> group.group_id, kind |-> "original",
                       node |-> group.original]
                 /\ \A j \in 1..Len(group.effects) :
                      sequence[at + 1 + j] =
                        [group_id |-> group.group_id, kind |-> "effect",
                         node |-> group.effects[j]]

\* C10 witness: two groups flattened, the first with two different effect nodes
C10_Witness ==
    /\ pc = "expand"
    /\ Len(job_groups) = 2
    /\ Len(job_groups[1].effects) = 2
    /\ job_groups[1].effects[1] # job_groups[1].effects[2]
    /\ Len(sequence) = 4

(***************************************************************************)
(* Properties of validation, resolution and the batch                      *)
(***************************************************************************)
\* A node of the document that the job format does not allow: no image
\* reference, or a reference of the wrong type
RawNodeInvalid(node) ==
    \/ node.image_url \in {None, "", " ", NotAString}
    \/ \E i \in 1..Len(node.narrations) : node.narrations[i].voice_url = NotAString

\* A document that the job format does not allow
RawInvalid(doc) ==
    \/ doc.groups = <<>>
    \/ \E g \in 1..Len(doc.groups) :
         \/ RawNodeInvalid(doc.groups[g].original)
         \/ \E e \in 1..Len(doc.groups[g].effects) :
              RawNodeInvalid(doc.groups[g].effects[e])

Recorded == {succeeded[i] : i \in 1..Len(succeeded)}
            \cup {failed[i].job_path : i \in 1..Len(failed)}

C13_FetchIdempotent ==
    \A i, j \in 1..Len(fetch_log) :
        ( /\ i < j
          /\ fetch_log[i].ok
          /\ fetch_log[j].source = fetch_log[i].source
          /\ fetch_log[j].subdir = fetch_log[i].subdir )
        => /\ fetch_log[j].ok
           /\ fetch_log[j].path = fetch_log[i].path
           /\ ~fetch_log[j].downloaded

\* C13 witness: a url is downloaded, another reference and the same url in the
\* other category are fetched, then the url is fetched again from the cache
C13_Witness ==
    /\ Len(fetch_log) = 3
    /\ fetch_log[1].ok /\ fetch_log[1].downloaded
    /\ fetch_log[1].source = "http://h/v.mp3" /\ fetch_log[1].subdir = "audio"
    /\ fetch_log[2].ok /\ fetch_log[2].downloaded
    /\ fetch_log[2].path # fetch_log[1].path
    /\ fetch_log[3].source = "http://h/v.mp3" /\ fetch_log[3].subdir = "audio"
    /\ fetch_log[3].ok /\ ~fetch_log[3].downloaded

\* C14: when render_job has ended, by return or by an exception at any step,
\* no audio handle it opened is still open; and at any moment every open
\* handle is on the list the finally block closes.
C14_HandlesScoped ==
    /\ open_handles \subseteq {opened_audio_sources[i] : i \in 1..Len(opened_audio_sources)}
    /\ pc \in {"returned", "raised", "run_returned", "failed"} => open_handles = {}

\* C14 witness: the second iteration has raised after its voice file was
\* opened, with the first voice file open since the first iteration
C14_Witness ==
    /\ pc = "raised"
    /\ idx = 1
    /\ Len(opened_audio_sources) = 2
    /\ open_handles = {}

\* C15 (as claimed): once render_job has written the file, whatever happens
\* in the cover embedding the job does not fail, and the file is the original
\* render unless the embedding went through.
C15_CoverBestEffort ==
    output_file # None =>
        /\ pc \in {"returned", "run_returned"}
        /\ error = None
        /\ output_file = "with_cover" => ~tmp_file

\* The subtitle the loop must have built for segment k
InitialSubtitle(k) ==
    LET voiced == segments[k].voice_path # None
        off == OffsetOf(k)
        avail == IF durations[k] - off > 0 THEN durations[k] - off ELSE 0
        raw == IF voiced
               THEN (IF VoiceLenOf(k) < avail THEN VoiceLenOf(k) ELSE avail)
               ELSE durations[k]
    IN  [seg |-> k,
         start |-> IF voiced THEN starts[k] + off ELSE starts[k],
         duration |-> IF raw - 5 > 5 THEN raw - 5 ELSE 5]

\* The subtitles the loop must have built for segments 1..n, in order
RECURSIVE InitialSubtitles(_)
InitialSubtitles(n) ==
    IF n = 0 THEN <<>>
    ELSE IF segments[n].comment # ""
         THEN Append(InitialSubtitles(n - 1), InitialSubtitle(n))
         ELSE InitialSubtitles(n - 1)

\* C17: before the post-pass the subtitles are exactly those of the segments
\* with a comment, each starting at start + offset with a voice and at start
\* without one, and lasting max(0.05, raw_duration - 0.05) with raw_duration =
\* min(voice_duration, max(0, duration - offset)) with a voice and duration
\* without one.
C17_InitialSubtitle ==
    pc = "loop" =>
        /\ subtitle_layers = InitialSubtitles(idx)
        /\ subtitle_segment_indices =
             [i \in 1..Len(subtitle_layers) |-> subtitle_layers[i].seg]
        /\ \A i \in 1..Len(subtitle_layers) :
             LET k == subtitle_layers[i].seg
             IN  /\ subtitle_start_times[k] = subtitle_layers[i].start
                 /\ subtitle_end_times[k] =
                      subtitle_layers[i].start + subtitle_layers[i].duration

\* C17 witness: two subtitles built, the first for a segment with a voice and
\* a positive offset, the second for a segment with a comment and no voice
C17_Witness ==
    /\ pc = "loop" /\ idx = 2
    /\ Len(subtitle_layers) = 2
    /\ segments[1].voice_path = "cache/audio/long.mp3"
    /\ voice_offset > 0
    /\ segments[2].voice_path = None
    /\ subtitle_layers[1].start = starts[1] + voice_offset
    /\ subtitle_layers[2].start = starts[2]

\* The voice clips the loop must have planned for segments 1..n, in order
RECURSIVE PlannedVoiceClips(_)
PlannedVoiceClips(n) ==
    IF n = 0 THEN <<>>
    ELSE LET off == OffsetOf(n)
             avail == IF durations[n] - off > 0 THEN durations[n] - off ELSE 0
             trimmed == IF VoiceLenOf(n) < avail THEN VoiceLenOf(n) ELSE avail
         IN  IF segments[n].voice_path # None /\ trimmed > 0
             THEN Append(PlannedVoiceClips(n - 1),
                         [kind |-> "voice", seg |-> n, start |-> starts[n] + off,
                          duration |-> trimmed])
             ELSE PlannedVoiceClips(n - 1)

\* C18: the planned voice clips are, in segment order, one clip for every
\* segment with a voice whose trimmed length min(voice_duration, max(0,
\* duration - offset)) is positive, starting at start + offset and lasting the
\* trimmed length; a voice of trimmed length 0 has no clip.
C18_VoiceClips ==
    LET IsVoice(c) == c.kind = "voice"
    IN  SelectSeq(audio_tracks, IsVoice) = PlannedVoiceClips(idx)

\* C18 witness: a finished plan of two voiced segments of one group and the
\* bgm, both voice clips planned at a positive offset
C18_Witness ==
    /\ pc = "returned"
    /\ Len(segments) = 2
    /\ segments[1].group_id = segments[2].group_id
    /\ voice_offset > 0
    /\ Len(audio_tracks) = 3
    /\ audio_tracks[1].kind = "bgm"
    /\ audio_tracks[2].seg = 1 /\ audio_tracks[2].start = starts[1] + voice_offset
    /\ audio_tracks[3].seg = 2 /\ audio_tracks[3].start = starts[2] + 80

\* The index of the group that entry n of the sequence comes from
GroupOfEntry(n) ==
    CHOOSE g \in 1..Len(job_groups) : EntriesBefore(g) < n /\ n <= EntriesBefore(g + 1)

\* For the segments of entries 1..n of the sequence, the index of the group
\* each segment was produced for
RECURSIVE SegmentGroups(_)
SegmentGroups(n) ==
    IF n = 0 THEN <<>>
    ELSE LET count == IF sequence[n].node.narrations = <<>> THEN 1
                      ELSE Len(sequence[n].node.narrations)
         IN  SegmentGroups(n - 1) \o [i \in 1..count |-> GroupOfEntry(n)]

\* C16 (as claimed): render_job treats a segment as group-first, and gives it
\* voice_start_offset instead of the 0.8 s cue delay, if and only if it is
\* the first segment produced for its group, for every job the parser
\* accepts. The segments are those run has built so far.
C16_OffsetByGroupFirst ==
    pc = "expand" =>
        LET grp == SegmentGroups(node_pos)
        IN  \A k \in 1..Len(segments) :
              /\ IsGroupFirst(k) <=> (k = 1 \/ grp[k] # grp[k - 1])
              /\ (k = 1 \/ grp[k] # grp[k - 1]) <=>
                    SegmentVoiceOffset(k) = voice_offset

\* C19: whatever the three timeline values are, render_job fails only on an
\* empty segment list; it works with transition = max(0, transition_sec),
\* default_still = max(0.1, default_still_sec) and voice offset = max(0,
\* voice_start_offset_sec), and every segment duration is positive.
C19_LenientClamping ==
    /\ pc = "raised" => segments = <<>>
    /\ pc \notin {"render_job", "raised"} =>
         /\ transition = (IF timeline.transition_sec > 0
                          THEN timeline.transition_sec ELSE 0)
         /\ default_still = (IF timeline.default_still_sec > 10
                             THEN timeline.default_still_sec ELSE 10)
         /\ voice_offset = (IF timeline.voice_start_offset_sec > 0
                            THEN timeline.voice_start_offset_sec ELSE 0)
    /\ \A k \in 1..Len(durations) :
         /\ durations[k] > 0
         /\ durations[k] >= default_still
    /\ (pc = "returned" /\ segments # <<>>) => Len(durations) = Len(segments)

\* C19 witness: a plan of two segments finished with a negative transition, a
\* zero still duration and a negative voice offset
C19_Witness ==
    /\ pc = "returned"
    /\ timeline.transition_sec < 0
    /\ timeline.default_still_sec = 0
    /\ timeline.voice_start_offset_sec < 0
    /\ Len(durations) = 2
    /\ durations[2] = 10

\* C20 (as claimed): in the finished plan every segment that starts a new
\* group, with T > 0, still slides in from the right from its start, during
\* [start, start + T] when it lasts at least T, also when it has become the
\* slide-out partner of the next boundary.
C20_SlideInKept ==
    Planned =>
        \A k \in 2..Len(video_layers) :
            Boundary(k) =>
                /\ video_layers[k].position = "slide_in_right"
                /\ SlideInWindow(video_layers[k]).from = starts[k]
                /\ durations[k] >= transition =>
                      SlideInWindow(video_layers[k]).to = starts[k] + transition

\* C21 (as claimed): the start times recorded by the loop are non-negative
\* and non-decreasing in segment order, for every clamped timeline, also with
\* a transition longer than a segment.
C21_StartsMonotone ==
    \A k \in 1..Len(starts) :
        /\ starts[k] >= 0
        /\ k > 1 => starts[k] >= starts[k - 1]

\* C22: a voice is never truncated and never outlasts its segment: for every
\* placed segment with a voice, min(voice_duration, available) is the voice
\* duration and start + offset + trimmed duration <= start + duration; the
\* planned voice clips have the full voice length and end within their segment.
C22_VoiceFits ==
    /\ \A k \in 1..Len(durations) :
         segments[k].voice_path # None =>
            LET off == OffsetOf(k)
                available == IF durations[k] - off > 0 THEN durations[k] - off ELSE 0
                trimmed == IF VoiceLenOf(k) < available THEN VoiceLenOf(k) ELSE available
            IN  /\ trimmed = VoiceLenOf(k)
                /\ starts[k] + off + trimmed <= starts[k] + durations[k]
    /\ \A i \in 1..Len(audio_tracks) :
         audio_tracks[i].kind = "voice" =>
            LET c == audio_tracks[i]
            IN  /\ c.duration = VoiceLenOf(c.seg)
                /\ c.start + c.duration <= starts[c.seg] + durations[c.seg]

\* C22 witness: a finished plan in which a voice longer than the still
\* duration, played after a positive offset, ends exactly with its segment
C22_Witness ==
    /\ pc = "returned"
    /\ \E i \in 1..Len(audio_tracks) :
         /\ audio_tracks[i].kind = "voice"
         /\ audio_tracks[i].duration > default_still
         /\ audio_tracks[i].start > starts[audio_tracks[i].seg]
         /\ audio_tracks[i].start + audio_tracks[i].duration =
               starts[audio_tracks[i].seg] + durations[audio_tracks[i].seg]

\* C23 (as claimed): every subtitle layer, before and after the post-pass,
\* lies inside the visual span of its segment: it starts at or after the
\* segment's start and ends at or before start + duration.
C23_SubtitleInsideSegment ==
    \A i \in 1..Len(subtitle_layers) :
        LET k == subtitle_layers[i].seg
        IN  /\ subtitle_layers[i].start >= starts[k]
            /\ subtitle_layers[i].start + subtitle_layers[i].duration
                  <= starts[k] + durations[k]

\* C24 (as claimed): starting from an empty cache, a fetch returns a path
\* from the cache without downloading or copying only if an earlier fetch of
\* the same reference and category completed successfully; a fetch that
\* failed after creating its cache file never makes a later fetch a cache hit.
C24_NoCachePoisoning ==
    \A j \in 1..Len(fetch_log) :
        (fetch_log[j].ok /\ ~fetch_log[j].downloaded) =>
            \E i \in 1..(j - 1) :
                /\ fetch_log[i].ok
                /\ fetch_log[i].source = fetch_log[j].source
                /\ fetch_log[i].subdir = fetch_log[j].subdir

====
